---- MODULE Spec2Model ----
(***************************************************************************)
(* BoostMonitor (src/monitor.py): the polling loop of one monitor worker,  *)
(* its contribution pipeline (contribute_card), the handler of a card      *)
(* change without boost, and start()/stop().                               *)
(*                                                                         *)
(* The worker's position is pc.  Every call of a collaborator is one step; *)
(* its result (a fetched descriptor, None, a quota answer, an exception)   *)
(* is chosen from a small set.  trace is the history of the collaborator   *)
(* calls and flag writes of the tick in progress; it is emptied when a     *)
(* tick begins.                                                            *)
(*                                                                         *)
(* Spec covers the behaviours with one worker thread: start() launches a   *)
(* worker only when no earlier worker is still alive.                      *)
(*                                                                         *)
(* TelegramUsersDB (src/telegram_users_db.py) and TelegramUnifiedHandler   *)
(* (src/telegram_unified_handler.py) are modelled after the monitor: the   *)
(* database calls (DbSpec), the commands and button callbacks of the       *)
(* handler (CommandSpec), its watch for replies to the bot's messages      *)
(* (ReplySpec) and its polling loop with one polling thread (PollSpec).    *)
(***************************************************************************)
EXTENDS Integers, Sequences, FiniteSets

VARIABLES running, card_changed, current_card_id, boost_available,
          notifier_enabled, saved,
          pc, check_count, trace,
          boost_card, new_boost_card, new_card_id, success,
          thread, workers, caller, api,
          users, db, sender,
          handler_running, poll_pc, consecutive_errors, last_update_id,
          confirmed, arrived, updates, handled,
          bot_message_ids, invocations, cur

\* the variables of BoostMonitor (src/monitor.py)
monitor == <<running, card_changed, current_card_id, boost_available,
             notifier_enabled, saved, pc, check_count, trace,
             boost_card, new_boost_card, new_card_id, success,
             thread, workers, caller, api>>

\* the variables of TelegramUsersDB (src/telegram_users_db.py) and of the
\* commands and button callbacks that reach it
database == <<users, db, sender>>

\* the variables of the polling loop of TelegramUnifiedHandler
\* (src/telegram_unified_handler.py) and of the Telegram server it polls
polling == <<handler_running, poll_pc, consecutive_errors, last_update_id,
             confirmed, arrived, updates, handled>>

\* the variables of the handler's watch for replies to the bot's messages
replies == <<bot_message_ids, invocations, cur>>

\* the variables of the Telegram bot, which no step of the monitor moves
telegram == <<database, polling, replies>>

vars == <<monitor, telegram>>

\* the variables of the lifecycle view (LifecycleSpec): the Thread objects
\* start() has created and the thread that calls start() and stop()
lifecycle == <<thread, workers, caller, api>>

(* ---------------------------- bounds ----------------------------------- *)
\* card ids are 1..MaxCardId; 0 stands for a missing / falsy card_id
MaxCardId == 2
\* ticks one worker performs (check_count of monitor_loop)
MaxChecks == 3
\* Thread objects start() creates in the lifecycle view
MaxThreads == 2

\* MangaBuff user ids are 1..MaxMbId
MaxMbId == 2
\* updates the Telegram server receives in one run (update_id 1..MaxUpdates)
MaxUpdates == 3
\* message ids of the bot's messages are 1..MaxMsgId
MaxMsgId == 2

\* config.MONITOR_STATUS_INTERVAL: ticks between idle status lines
MONITOR_STATUS_INTERVAL == 2

(* ---------------------------- values ----------------------------------- *)
\* the 'id' of a descriptor: monitor.py only tests it for truth and passes
\* it on, so it is 0 (missing / falsy) or 1 (an instance id)
InstanceIds == {0, 1}
\* the dict of get_boost_card_info, reduced to the keys monitor.py reads
Descriptors == [id : InstanceIds, card_id : 0..MaxCardId]
\* Python None (also: "no descriptor in this event")
None == [id |-> -1, card_id |-> -1]
\* None of self.current_card_id, and the .get('card_id', 0) default
NoCard == 0
\* None of self.thread; the Thread objects are numbered from 1
NoThread == 0
\* what get_boost_card_info returns: a descriptor, or None on failure
FetchResults == Descriptors \cup {None}

\* stats_manager.can_donate(force_refresh=True): True, False, or an exception
QuotaOutcomes == {"allow", "deny", "raise"}
\* notify_card_change: True, False, or an exception
NotifyOutcomes == {"ok", "fail", "raise"}
\* save_json: written, or an exception
PersistOutcomes == {"ok", "raise"}
\* cancel_all_sent_trades: True, False, or an exception
CancelOutcomes == {"ok", "fail", "raise"}
\* stats_manager.refresh_stats(): returns, or an exception
RefreshOutcomes == {"ok", "raise"}

Event(op, res, d) == [op |-> op, res |-> res, d |-> d]
Emit(op, res, d) == Append(trace, Event(op, res, d))

\* the locals of one tick, before they are assigned
ResetLocals ==
    /\ boost_card' = None
    /\ new_boost_card' = None
    /\ new_card_id' = NoCard
    /\ success' = FALSE

(* ---------------------------- values of the bot ----------------------- *)
\* polling_loop: max_errors = 5
max_errors == 5

\* Telegram users: the one who sends a command and one other
TgIds == {1, 2}
\* a callback_query without a 'from' id (from_user.get('id') is None)
NoSender == 0
\* MangaBuff user ids, as extract_id_from_url returns them
MbIds == 1..MaxMbId
\* no id could be extracted (None of extract_id_from_url)
NoId == 0
\* what a user can name as an id in "/remove <id>" or in callback data:
\* an id, or a string that is no id of any account (0)
Tokens == 0..MaxMbId
\* mangabuff_user_id = None of unregister_account (remove every account)
NoToken == -1
\* notification types: 'dm', 'tag', and "other" for any other string
Types == {"dm", "tag", "other"}
\* the texts register_account is given: "@name", a profile link
\* ".../users/<digits>", a bare number, or other words
Urls == {[form |-> f, digits |-> NoId] : f \in {"at", "words"}}
        \cup [form : {"profile", "number"}, digits : MbIds]
\* one entry of 'mangabuff_accounts' (the 'username' key is only displayed)
Account == [user_id : MbIds, notification_type : Types]
\* the ids Telegram gives the updates of a run, in the order they arrive
UpdateIds == 1..MaxUpdates
\* the ids of the messages the bot has sent
MsgIds == 1..MaxMsgId
\* 'reply_to_message' is absent
NoReply == 0
\* TRIGGER_KEYWORDS (the list also holds four Russian phrases, which are
\* matched the same way)
TRIGGER_KEYWORDS == {"change card", "replace"}
\* message texts, as sequences of words: the empty text, a text without
\* a keyword, a text with a keyword in another letter case
Texts == {<<>>, <<"ok">>, <<"ok", "Replace">>}
\* a message of an update as process_updates reads it: the chat it is in
\* ("missing": no chat id), its thread compared with self.thread_id
\* ("unset": self.thread_id is None), the bot message it replies to and
\* its text
Messages == [chat : {"missing", "private", "configured", "other"},
             thread : {"unset", "same", "other"},
             reply_to : MsgIds \cup {NoReply},
             text : Texts]
\* the last step handled no message
NoUpdate == [chat |-> "none", thread |-> "unset",
             reply_to |-> NoReply, text |-> <<>>]
\* on_replace_triggered: None, a callable that returns, one that raises
Callbacks_on_replace == {"none", "returns", "raises"}

\* BoostMonitor.__init__: the state after construction
Init ==
    /\ running = FALSE
    /\ card_changed = FALSE
    /\ current_card_id = NoCard
    /\ boost_available = FALSE
    /\ notifier_enabled \in BOOLEAN
    /\ saved = None
    /\ pc = "idle"
    /\ check_count = 0
    /\ trace = <<>>
    /\ boost_card = None
    /\ new_boost_card = None
    /\ new_card_id = NoCard
    /\ success = FALSE
    /\ thread = NoThread
    /\ workers = [w \in 1..MaxThreads |-> "unborn"]
    /\ caller = "idle"
    /\ api = [op |-> "none", was_running |-> FALSE, join |-> "none", seq |-> 0]
    /\ users = <<>>
    /\ db = [ok |-> TRUE]
    /\ sender = NoSender
    /\ handler_running = FALSE
    /\ poll_pc = "idle"
    /\ consecutive_errors = 0
    /\ last_update_id = 0
    /\ confirmed = 0
    /\ arrived = 0
    /\ updates = <<>>
    /\ handled = [i \in UpdateIds |-> [times |-> 0, raised |-> FALSE]]
    /\ bot_message_ids = {}
    /\ invocations = [m \in MsgIds |-> 0]
    /\ cur = NoUpdate

(* ---------------------------- lifecycle -------------------------------- *)
\* start() as the single worker of Spec sees it: running = True and the
\* worker begins (start_call models the whole method, with self.thread)
start ==
    /\ ~running
    /\ pc \in {"idle", "exited", "crashed"}
    /\ running' = TRUE
    /\ pc' = "loop_head"
    /\ check_count' = 0
    /\ trace' = <<>>
    /\ ResetLocals
    /\ UNCHANGED lifecycle
    /\ UNCHANGED telegram
    /\ UNCHANGED <<card_changed, current_card_id, boost_available,
                   notifier_enabled, saved>>

\* mutant: stop() also clears card_changed
stop_resets_flag ==
    /\ running
    /\ running' = FALSE
    /\ card_changed' = FALSE
    /\ UNCHANGED lifecycle
    /\ UNCHANGED telegram
    /\ UNCHANGED <<current_card_id, boost_available,
                   notifier_enabled, saved, pc, check_count, trace,
                   boost_card, new_boost_card, new_card_id, success>>

\* stop() as the single worker of Spec sees it: running = False
\* (stop_call and stop_join model the whole method, with the join)
stop ==
    /\ running
    /\ running' = FALSE
    /\ UNCHANGED lifecycle
    /\ UNCHANGED telegram
    /\ UNCHANGED <<card_changed, current_card_id, boost_available,
                   notifier_enabled, saved, pc, check_count, trace,
                   boost_card, new_boost_card, new_card_id, success>>

(* ---------------------------- monitor_loop ----------------------------- *)
\* while self.running: check_count += 1  (a new tick begins)
monitor_loop_tick ==
    /\ pc = "loop_head"
    /\ running
    /\ check_count < MaxChecks
    /\ check_count' = check_count + 1
    /\ trace' = <<>>
    /\ ResetLocals
    /\ pc' = "check_card"
    /\ UNCHANGED lifecycle
    /\ UNCHANGED telegram
    /\ UNCHANGED <<running, card_changed, current_card_id, boost_available,
                   notifier_enabled, saved>>

\* while self.running: the condition is false, monitor_loop returns
monitor_loop_exit ==
    /\ pc = "loop_head"
    /\ ~running
    /\ pc' = "exited"
    /\ UNCHANGED lifecycle
    /\ UNCHANGED telegram
    /\ UNCHANGED <<running, card_changed, current_card_id, boost_available,
                   notifier_enabled, saved, check_count, trace,
                   boost_card, new_boost_card, new_card_id, success>>

\* mutant: the test of self.current_card_id is dropped from line 106
CardChanged_first_read(r) ==
    /\ r # None
    /\ r.card_id # NoCard
    /\ r.card_id # current_card_id

\* check_card_changed, line 106: the fetched card differs from the known one
CardChanged(r) ==
    /\ r # None
    /\ r.card_id # NoCard
    /\ current_card_id # NoCard
    /\ r.card_id # current_card_id

\* mutant: a failed identity fetch ends the worker
check_card_changed_fatal ==
    /\ pc = "check_card"
    /\ \E r \in FetchResults :
         /\ trace' = Emit("identity", IF r = None THEN "fail" ELSE "ok",
                          IF r = None THEN None
                          ELSE [id |-> 0, card_id |-> r.card_id])
         /\ IF CardChanged(r)
            THEN /\ new_card_id' = r.card_id
                 /\ pc' = "h_cancel"
            ELSE /\ new_card_id' = NoCard
                 /\ pc' = IF r = None THEN "crashed" ELSE "probe"
    /\ UNCHANGED lifecycle
    /\ UNCHANGED telegram
    /\ UNCHANGED <<running, card_changed, current_card_id, boost_available,
                   notifier_enabled, saved, check_count,
                   boost_card, new_boost_card, success>>

\* new_card_id = self.check_card_changed(); if new_card_id: (dispatch)
check_card_changed ==
    /\ pc = "check_card"
    /\ \E r \in FetchResults :
         /\ trace' = Emit("identity", IF r = None THEN "fail" ELSE "ok",
                          IF r = None THEN None
                          ELSE [id |-> 0, card_id |-> r.card_id])
         /\ IF CardChanged(r)
            THEN /\ new_card_id' = r.card_id
                 /\ pc' = "h_cancel"
            ELSE /\ new_card_id' = NoCard
                 /\ pc' = "probe"
    /\ UNCHANGED lifecycle
    /\ UNCHANGED telegram
    /\ UNCHANGED <<running, card_changed, current_card_id, boost_available,
                   notifier_enabled, saved, check_count,
                   boost_card, new_boost_card, success>>

\* mutant: the status line is printed in every quiet tick
StatusDue_every_tick == TRUE

\* the status line of a quiet tick, lines 501-504
StatusDue == check_count = 1 \/ check_count % MONITOR_STATUS_INTERVAL = 0

\* mutant: card_changed is not set when the boost is found
monitor_loop_probe_no_flag ==
    /\ pc = "probe"
    /\ \E found \in BOOLEAN :
         IF found
         THEN /\ trace' = Emit("probe", "found", None)
              /\ pc' = "loop_quota"
         ELSE /\ trace' = IF StatusDue
                          THEN trace \o <<Event("probe", "none", None),
                                          Event("status", "ok", None)>>
                          ELSE Emit("probe", "none", None)
              /\ pc' = "sleep"
    /\ UNCHANGED lifecycle
    /\ UNCHANGED telegram
    /\ UNCHANGED <<running, card_changed, current_card_id, boost_available,
                   notifier_enabled, saved, check_count,
                   boost_card, new_boost_card, new_card_id, success>>

\* mutant: a tick without boost resets card_changed
monitor_loop_probe_resets_flag ==
    /\ pc = "probe"
    /\ \E found \in BOOLEAN :
         IF found
         THEN /\ card_changed' = TRUE
              /\ trace' = trace \o <<Event("probe", "found", None),
                                     Event("set_flag", "ok", None)>>
              /\ pc' = "loop_quota"
         ELSE /\ card_changed' = FALSE
              /\ trace' = IF StatusDue
                          THEN trace \o <<Event("probe", "none", None),
                                          Event("status", "ok", None)>>
                          ELSE Emit("probe", "none", None)
              /\ pc' = "sleep"
    /\ UNCHANGED lifecycle
    /\ UNCHANGED telegram
    /\ UNCHANGED <<running, current_card_id, boost_available,
                   notifier_enabled, saved, check_count,
                   boost_card, new_boost_card, new_card_id, success>>

\* boost_url = self.check_boost_available(); if boost_url: card_changed = True
\* else: periodic status
monitor_loop_probe ==
    /\ pc = "probe"
    /\ \E found \in BOOLEAN :
         IF found
         THEN /\ card_changed' = TRUE
              /\ trace' = trace \o <<Event("probe", "found", None),
                                     Event("set_flag", "ok", None)>>
              /\ pc' = "loop_quota"
         ELSE /\ card_changed' = card_changed
              /\ trace' = IF StatusDue
                          THEN trace \o <<Event("probe", "none", None),
                                          Event("status", "ok", None)>>
                          ELSE Emit("probe", "none", None)
              /\ pc' = "sleep"
    /\ UNCHANGED lifecycle
    /\ UNCHANGED telegram
    /\ UNCHANGED <<running, current_card_id, boost_available,
                   notifier_enabled, saved, check_count,
                   boost_card, new_boost_card, new_card_id, success>>

\* if self.stats_manager.can_donate(force_refresh=True): ... else: reset flag
monitor_loop_can_donate ==
    /\ pc = "loop_quota"
    /\ \E q \in QuotaOutcomes :
         /\ trace' = Emit("can_donate", q, None)
         /\ CASE q = "allow" -> /\ pc' = "cc_quota"
                                /\ card_changed' = card_changed
              [] q = "deny"  -> /\ pc' = "sleep"
                                /\ card_changed' = FALSE
              [] q = "raise" -> /\ pc' = "crashed"
                                /\ card_changed' = card_changed
    /\ UNCHANGED lifecycle
    /\ UNCHANGED telegram
    /\ UNCHANGED <<running, current_card_id, boost_available,
                   notifier_enabled, saved, check_count,
                   boost_card, new_boost_card, new_card_id, success>>

\* mutant: the flag is not reset after a failed attempt
monitor_loop_result_keeps_flag ==
    /\ pc = "loop_result"
    /\ boost_available' = (boost_available \/ success)
    /\ pc' = "sleep"
    /\ UNCHANGED lifecycle
    /\ UNCHANGED telegram
    /\ UNCHANGED <<running, card_changed, current_card_id, notifier_enabled,
                   saved, check_count, trace,
                   boost_card, new_boost_card, new_card_id, success>>

\* if success: boost_available = True  else: card_changed = False
monitor_loop_result ==
    /\ pc = "loop_result"
    /\ IF success
       THEN /\ boost_available' = TRUE
            /\ card_changed' = card_changed
       ELSE /\ boost_available' = boost_available
            /\ card_changed' = FALSE
    /\ pc' = "sleep"
    /\ UNCHANGED lifecycle
    /\ UNCHANGED telegram
    /\ UNCHANGED <<running, current_card_id, notifier_enabled, saved,
                   check_count, trace,
                   boost_card, new_boost_card, new_card_id, success>>

\* time.sleep(MONITOR_CHECK_INTERVAL): the tick is over
monitor_loop_sleep ==
    /\ pc = "sleep"
    /\ pc' = "loop_head"
    /\ UNCHANGED lifecycle
    /\ UNCHANGED telegram
    /\ UNCHANGED <<running, card_changed, current_card_id, boost_available,
                   notifier_enabled, saved, check_count, trace,
                   boost_card, new_boost_card, new_card_id, success>>

(* ---------------------------- contribute_card -------------------------- *)
\* line 159: if not can_donate(force_refresh=True): return False
\* (outside the try block: an exception leaves monitor_loop)
contribute_card_can_donate ==
    /\ pc = "cc_quota"
    /\ \E q \in QuotaOutcomes :
         /\ trace' = Emit("can_donate", q, None)
         /\ CASE q = "allow" -> pc' = "cc_fetch"
              [] q = "deny"  -> pc' = "loop_result"
              [] q = "raise" -> pc' = "crashed"
    /\ success' = FALSE
    /\ UNCHANGED lifecycle
    /\ UNCHANGED telegram
    /\ UNCHANGED <<running, card_changed, current_card_id, boost_available,
                   notifier_enabled, saved, check_count,
                   boost_card, new_boost_card, new_card_id>>

\* lines 166-177: the descriptor of the card to contribute; return False
\* when there is none or it has no instance id
contribute_card_fetch ==
    /\ pc = "cc_fetch"
    /\ \E r \in FetchResults :
         /\ trace' = Emit("get_card", IF r = None THEN "fail" ELSE "ok", r)
         /\ IF r = None \/ r.id = 0
            THEN /\ pc' = "loop_result"
                 /\ boost_card' = boost_card
            ELSE /\ pc' = "cc_quota2"
                 /\ boost_card' = r
    /\ success' = FALSE
    /\ UNCHANGED lifecycle
    /\ UNCHANGED telegram
    /\ UNCHANGED <<running, card_changed, current_card_id, boost_available,
                   notifier_enabled, saved, check_count,
                   new_boost_card, new_card_id>>

\* mutant: the answer of the check before sending is ignored
contribute_card_can_donate2_ignored ==
    /\ pc = "cc_quota2"
    /\ \E q \in QuotaOutcomes : trace' = Emit("can_donate", q, None)
    /\ pc' = "cc_submit"
    /\ success' = FALSE
    /\ UNCHANGED lifecycle
    /\ UNCHANGED telegram
    /\ UNCHANGED <<running, card_changed, current_card_id, boost_available,
                   notifier_enabled, saved, check_count,
                   boost_card, new_boost_card, new_card_id>>

\* mutant: the check before sending is left out
contribute_card_can_donate2_skipped ==
    /\ pc = "cc_quota2"
    /\ pc' = "cc_submit"
    /\ success' = FALSE
    /\ UNCHANGED lifecycle
    /\ UNCHANGED telegram
    /\ UNCHANGED <<running, card_changed, current_card_id, boost_available,
                   notifier_enabled, saved, check_count, trace,
                   boost_card, new_boost_card, new_card_id>>

\* line 183: the limit is checked once more before the request is sent
\* (inside the try block: an exception is caught and False returned)
contribute_card_can_donate2 ==
    /\ pc = "cc_quota2"
    /\ \E q \in QuotaOutcomes :
         /\ trace' = Emit("can_donate", q, None)
         /\ pc' = IF q = "allow" THEN "cc_submit" ELSE "loop_result"
    /\ success' = FALSE
    /\ UNCHANGED lifecycle
    /\ UNCHANGED telegram
    /\ UNCHANGED <<running, card_changed, current_card_id, boost_available,
                   notifier_enabled, saved, check_count,
                   boost_card, new_boost_card, new_card_id>>

\* mutant: the pipeline goes on after a failed request
contribute_card_send_continues ==
    /\ pc = "cc_submit"
    /\ \E ok \in BOOLEAN :
         trace' = Emit("submit", IF ok THEN "ok" ELSE "fail", boost_card)
    /\ pc' = "cc_refetch"
    /\ success' = FALSE
    /\ UNCHANGED lifecycle
    /\ UNCHANGED telegram
    /\ UNCHANGED <<running, card_changed, current_card_id, boost_available,
                   notifier_enabled, saved, check_count,
                   boost_card, new_boost_card, new_card_id>>

\* lines 188-192: success = self._send_contribute_request(...)
contribute_card_send ==
    /\ pc = "cc_submit"
    /\ \E ok \in BOOLEAN :
         /\ trace' = Emit("submit", IF ok THEN "ok" ELSE "fail", boost_card)
         /\ pc' = IF ok THEN "cc_refetch" ELSE "loop_result"
    /\ success' = FALSE
    /\ UNCHANGED lifecycle
    /\ UNCHANGED telegram
    /\ UNCHANGED <<running, card_changed, current_card_id, boost_available,
                   notifier_enabled, saved, check_count,
                   boost_card, new_boost_card, new_card_id>>

\* lines 204-219: time.sleep(1), then the descriptor is fetched again
contribute_card_refetch ==
    /\ pc = "cc_refetch"
    /\ \E r \in FetchResults :
         /\ trace' = trace \o <<Event("settle", "ok", None),
                                Event("refetch", IF r = None THEN "fail" ELSE "ok", r)>>
         /\ new_boost_card' = r
         /\ pc' = IF r = None THEN "cc_cancel" ELSE "cc_compare"
    /\ UNCHANGED lifecycle
    /\ UNCHANGED telegram
    /\ UNCHANGED <<running, card_changed, current_card_id, boost_available,
                   notifier_enabled, saved, check_count,
                   boost_card, new_card_id, success>>

\* mutant: notify_card_change is called whether or not there is an
\* enabled notifier
SendTelegramNotification_always(tr, d, res) == Append(tr, Event("notify", res, d))

\* _send_telegram_notification: nothing without an enabled notifier; else
\* notify_card_change is called, and its result or exception only logged
SendTelegramNotification(tr, d, res) ==
    IF notifier_enabled THEN Append(tr, Event("notify", res, d)) ELSE tr

\* mutant: the notification is not sent before the cleanup
contribute_card_compare_no_notify ==
    /\ pc = "cc_compare"
    /\ IF new_boost_card.card_id # boost_card.card_id
       THEN /\ trace' = trace
            /\ current_card_id' = current_card_id
            /\ pc' = "cc_save"
       ELSE /\ trace' = Emit("unchanged", "ok", new_boost_card)
            /\ current_card_id' = boost_card.card_id
            /\ pc' = "cc_cancel"
    /\ UNCHANGED lifecycle
    /\ UNCHANGED telegram
    /\ UNCHANGED <<running, card_changed, boost_available,
                   notifier_enabled, saved, check_count,
                   boost_card, new_boost_card, new_card_id, success>>

\* lines 222-234 and 250-255: the comparison of the two card ids; on a
\* change the notification is sent, else current_card_id is set
contribute_card_compare ==
    /\ pc = "cc_compare"
    /\ IF new_boost_card.card_id # boost_card.card_id
       THEN /\ \E res \in NotifyOutcomes :
                 trace' = SendTelegramNotification(trace, new_boost_card, res)
            /\ current_card_id' = current_card_id
            /\ pc' = "cc_save"
       ELSE /\ trace' = Emit("unchanged", "ok", new_boost_card)
            /\ current_card_id' = boost_card.card_id
            /\ pc' = "cc_cancel"
    /\ UNCHANGED lifecycle
    /\ UNCHANGED telegram
    /\ UNCHANGED <<running, card_changed, boost_available,
                   notifier_enabled, saved, check_count,
                   boost_card, new_boost_card, new_card_id, success>>

\* mutant: current_card_id is set to the card id captured before sending
contribute_card_save_old_id ==
    /\ pc = "cc_save"
    /\ \E res \in PersistOutcomes :
         /\ trace' = Emit("save", res, new_boost_card)
         /\ IF res = "ok"
            THEN /\ saved' = new_boost_card
                 /\ current_card_id' = boost_card.card_id
                 /\ card_changed' = TRUE
                 /\ pc' = "cc_cancel"
            ELSE /\ UNCHANGED <<saved, current_card_id, card_changed>>
                 /\ pc' = "loop_result"
    /\ success' = FALSE
    /\ UNCHANGED lifecycle
    /\ UNCHANGED telegram
    /\ UNCHANGED <<running, boost_available, notifier_enabled, check_count,
                   boost_card, new_boost_card, new_card_id>>

\* lines 240-246: _save_boost_card, current_card_id, card_changed = True
contribute_card_save ==
    /\ pc = "cc_save"
    /\ \E res \in PersistOutcomes :
         /\ trace' = Emit("save", res, new_boost_card)
         /\ IF res = "ok"
            THEN /\ saved' = new_boost_card
                 /\ current_card_id' = new_boost_card.card_id
                 /\ card_changed' = TRUE
                 /\ pc' = "cc_cancel"
            ELSE /\ UNCHANGED <<saved, current_card_id, card_changed>>
                 /\ pc' = "loop_result"
    /\ success' = FALSE
    /\ UNCHANGED lifecycle
    /\ UNCHANGED telegram
    /\ UNCHANGED <<running, boost_available, notifier_enabled, check_count,
                   boost_card, new_boost_card, new_card_id>>

\* lines 214 and 262: self._cancel_pending_trades()
contribute_card_cancel ==
    /\ pc = "cc_cancel"
    /\ \E res \in CancelOutcomes :
         /\ trace' = Emit("cancel", res, None)
         /\ pc' = IF res = "raise" THEN "loop_result" ELSE "cc_refresh"
    /\ success' = FALSE
    /\ UNCHANGED lifecycle
    /\ UNCHANGED telegram
    /\ UNCHANGED <<running, card_changed, current_card_id, boost_available,
                   notifier_enabled, saved, check_count,
                   boost_card, new_boost_card, new_card_id>>

\* lines 215-216 and 265-268: refresh_stats(), then return False when the
\* second fetch had failed and True otherwise
contribute_card_refresh ==
    /\ pc = "cc_refresh"
    /\ \E res \in RefreshOutcomes :
         /\ trace' = Emit("refresh", res, None)
         /\ success' = (res = "ok" /\ new_boost_card # None)
    /\ pc' = "loop_result"
    /\ UNCHANGED lifecycle
    /\ UNCHANGED telegram
    /\ UNCHANGED <<running, card_changed, current_card_id, boost_available,
                   notifier_enabled, saved, check_count,
                   boost_card, new_boost_card, new_card_id>>

(* ------------------ handle_card_change_without_boost ------------------- *)
\* line 288: self._cancel_pending_trades(); an exception ends the handler
handle_cancel ==
    /\ pc = "h_cancel"
    /\ \E res \in CancelOutcomes :
         /\ trace' = Emit("cancel", res, None)
         /\ pc' = IF res = "raise" THEN "sleep" ELSE "h_refetch"
    /\ UNCHANGED lifecycle
    /\ UNCHANGED telegram
    /\ UNCHANGED <<running, card_changed, current_card_id, boost_available,
                   notifier_enabled, saved, check_count,
                   boost_card, new_boost_card, new_card_id, success>>

\* mutant: the handler goes on after a failed re-fetch
handle_refetch_continues ==
    /\ pc = "h_refetch"
    /\ \E r \in FetchResults :
         /\ trace' = trace \o <<Event("settle", "ok", None),
                                Event("refetch", IF r = None THEN "fail" ELSE "ok", r)>>
         /\ new_boost_card' = r
    /\ pc' = "h_notify"
    /\ UNCHANGED lifecycle
    /\ UNCHANGED telegram
    /\ UNCHANGED <<running, card_changed, current_card_id, boost_available,
                   notifier_enabled, saved, check_count,
                   boost_card, new_card_id, success>>

\* lines 293-302: time.sleep(2), then the descriptor is fetched
handle_refetch ==
    /\ pc = "h_refetch"
    /\ \E r \in FetchResults :
         /\ trace' = trace \o <<Event("settle", "ok", None),
                                Event("refetch", IF r = None THEN "fail" ELSE "ok", r)>>
         /\ new_boost_card' = r
         /\ pc' = IF r = None THEN "sleep" ELSE "h_notify"
    /\ UNCHANGED lifecycle
    /\ UNCHANGED telegram
    /\ UNCHANGED <<running, card_changed, current_card_id, boost_available,
                   notifier_enabled, saved, check_count,
                   boost_card, new_card_id, success>>

\* line 310: self._send_telegram_notification(new_boost_card)
handle_notify ==
    /\ pc = "h_notify"
    /\ \E res \in NotifyOutcomes :
         trace' = SendTelegramNotification(trace, new_boost_card, res)
    /\ pc' = "h_save"
    /\ UNCHANGED lifecycle
    /\ UNCHANGED telegram
    /\ UNCHANGED <<running, card_changed, current_card_id, boost_available,
                   notifier_enabled, saved, check_count,
                   boost_card, new_boost_card, new_card_id, success>>

\* mutant: the handler does not record the new card id
handle_save_keeps_id ==
    /\ pc = "h_save"
    /\ \E res \in PersistOutcomes :
         /\ trace' = Emit("save", res, new_boost_card)
         /\ IF res = "ok"
            THEN /\ saved' = new_boost_card
                 /\ card_changed' = TRUE
            ELSE UNCHANGED <<saved, card_changed>>
    /\ pc' = "sleep"
    /\ UNCHANGED lifecycle
    /\ UNCHANGED telegram
    /\ UNCHANGED <<running, current_card_id, boost_available,
                   notifier_enabled, check_count,
                   boost_card, new_boost_card, new_card_id, success>>

\* mutant: the tick goes on to the probe after the handler (no continue)
handle_save_no_continue ==
    /\ pc = "h_save"
    /\ \E res \in PersistOutcomes :
         /\ trace' = Emit("save", res, new_boost_card)
         /\ IF res = "ok"
            THEN /\ saved' = new_boost_card
                 /\ current_card_id' = new_card_id
                 /\ card_changed' = TRUE
            ELSE UNCHANGED <<saved, current_card_id, card_changed>>
    /\ pc' = "probe"
    /\ UNCHANGED lifecycle
    /\ UNCHANGED telegram
    /\ UNCHANGED <<running, boost_available, notifier_enabled, check_count,
                   boost_card, new_boost_card, new_card_id, success>>

\* lines 313-322: _save_boost_card, current_card_id = new_card_id,
\* card_changed = True
handle_save ==
    /\ pc = "h_save"
    /\ \E res \in PersistOutcomes :
         /\ trace' = Emit("save", res, new_boost_card)
         /\ IF res = "ok"
            THEN /\ saved' = new_boost_card
                 /\ current_card_id' = new_card_id
                 /\ card_changed' = TRUE
            ELSE UNCHANGED <<saved, current_card_id, card_changed>>
    /\ pc' = "sleep"
    /\ UNCHANGED lifecycle
    /\ UNCHANGED telegram
    /\ UNCHANGED <<running, boost_available, notifier_enabled, check_count,
                   boost_card, new_boost_card, new_card_id, success>>

(* ---------------------------- start() and stop() ---------------------- *)
(* The lifecycle view: the thread that calls start() and stop(), and every *)
(* Thread that start() has created.  A worker is at the loop condition     *)
(* ("loop_head"), inside a tick ("tick") or has returned ("exited"); what  *)
(* a tick does is the subject of Spec and is left out here.  api records   *)
(* the last call: its name, the value of running it found, how its join    *)
(* ended, and a bit that flips with every call.                            *)

\* the variables only Spec moves
pipeline == <<card_changed, current_card_id, boost_available,
              notifier_enabled, saved, pc, check_count, trace,
              boost_card, new_boost_card, new_card_id, success>>

\* the Threads that are executing monitor_loop
Alive == {w \in 1..MaxThreads : workers[w] \in {"loop_head", "tick"}}

Call(op) == [op |-> op, was_running |-> running, join |-> "none", seq |-> 1 - api.seq]

\* mutant: start() without the test of self.running
start_call_unguarded ==
    /\ caller = "idle"
    /\ api' = Call("start")
    /\ thread < MaxThreads
    /\ running' = TRUE
    /\ thread' = thread + 1
    /\ workers' = [workers EXCEPT ![thread + 1] = "loop_head"]
    /\ UNCHANGED caller
    /\ UNCHANGED pipeline
    /\ UNCHANGED telegram

\* start(), lines 509-517
start_call ==
    /\ caller = "idle"
    /\ api' = Call("start")
    /\ IF running
       THEN UNCHANGED <<running, thread, workers>>
       ELSE /\ thread < MaxThreads
            /\ running' = TRUE
            /\ thread' = thread + 1
            /\ workers' = [workers EXCEPT ![thread + 1] = "loop_head"]
    /\ UNCHANGED caller
    /\ UNCHANGED pipeline
    /\ UNCHANGED telegram

\* mutant: stop() without the test of self.running
stop_call_unguarded ==
    /\ caller = "idle"
    /\ api' = Call("stop")
    /\ running' = FALSE
    /\ caller' = IF thread # NoThread THEN "joining" ELSE "idle"
    /\ UNCHANGED <<thread, workers>>
    /\ UNCHANGED pipeline
    /\ UNCHANGED telegram

\* stop(), lines 519-529: return when not running; else running = False
\* and, when there is a thread, self.thread.join(timeout=5)
stop_call ==
    /\ caller = "idle"
    /\ api' = Call("stop")
    /\ IF ~running
       THEN UNCHANGED <<running, caller>>
       ELSE /\ running' = FALSE
            /\ caller' = IF thread # NoThread THEN "joining" ELSE "idle"
    /\ UNCHANGED <<thread, workers>>
    /\ UNCHANGED pipeline
    /\ UNCHANGED telegram

\* self.thread.join(timeout=5), lines 528-532: returns when the thread has
\* ended, or after 5 seconds while it is still alive
stop_join ==
    /\ caller = "joining"
    /\ caller' = "idle"
    /\ api' = [api EXCEPT !.join = IF workers[thread] = "exited"
                                   THEN "clean" ELSE "timeout"]
    /\ UNCHANGED <<running, thread, workers>>
    /\ UNCHANGED pipeline
    /\ UNCHANGED telegram

\* mutant: the loop does not test self.running
worker_tick_unconditional ==
    /\ \E w \in 1..MaxThreads :
         /\ workers[w] = "loop_head"
         /\ workers' = [workers EXCEPT ![w] = "tick"]
    /\ UNCHANGED <<running, thread, caller, api>>
    /\ UNCHANGED pipeline
    /\ UNCHANGED telegram

\* while self.running: a worker begins a tick, line 457
worker_tick ==
    /\ \E w \in 1..MaxThreads :
         /\ workers[w] = "loop_head"
         /\ running
         /\ workers' = [workers EXCEPT ![w] = "tick"]
    /\ UNCHANGED <<running, thread, caller, api>>
    /\ UNCHANGED pipeline
    /\ UNCHANGED telegram

\* while self.running: the condition is false, monitor_loop returns
worker_exit ==
    /\ \E w \in 1..MaxThreads :
         /\ workers[w] = "loop_head"
         /\ ~running
         /\ workers' = [workers EXCEPT ![w] = "exited"]
    /\ UNCHANGED <<running, thread, caller, api>>
    /\ UNCHANGED pipeline
    /\ UNCHANGED telegram

\* the calls of the tick return and time.sleep ends, lines 464 and 507
worker_sleep ==
    /\ \E w \in 1..MaxThreads :
         /\ workers[w] = "tick"
         /\ workers' = [workers EXCEPT ![w] = "loop_head"]
    /\ UNCHANGED <<running, thread, caller, api>>
    /\ UNCHANGED pipeline
    /\ UNCHANGED telegram

(* ---------------------------- specification ---------------------------- *)
Next ==
    \/ start
    \/ stop
    \/ monitor_loop_tick
    \/ monitor_loop_exit
    \/ check_card_changed
    \/ monitor_loop_probe
    \/ monitor_loop_can_donate
    \/ monitor_loop_result
    \/ monitor_loop_sleep
    \/ contribute_card_can_donate
    \/ contribute_card_fetch
    \/ contribute_card_can_donate2
    \/ contribute_card_send
    \/ contribute_card_refetch
    \/ contribute_card_compare
    \/ contribute_card_save
    \/ contribute_card_cancel
    \/ contribute_card_refresh
    \/ handle_cancel
    \/ handle_refetch
    \/ handle_notify
    \/ handle_save

Spec == Init /\ [][Next]_vars

\* the steps of the worker thread while running stays True: every
\* disjunct of Next but start, stop and the return of monitor_loop
WorkerStep ==
    \/ monitor_loop_tick
    \/ check_card_changed
    \/ monitor_loop_probe
    \/ monitor_loop_can_donate
    \/ monitor_loop_result
    \/ monitor_loop_sleep
    \/ contribute_card_can_donate
    \/ contribute_card_fetch
    \/ contribute_card_can_donate2
    \/ contribute_card_send
    \/ contribute_card_refetch
    \/ contribute_card_compare
    \/ contribute_card_save
    \/ contribute_card_cancel
    \/ contribute_card_refresh
    \/ handle_cancel
    \/ handle_refetch
    \/ handle_notify
    \/ handle_save

RunNext == start \/ WorkerStep

\* the behaviours in which the monitor is started and stop() is not
\* called ("while the loop keeps running"); the worker thread is scheduled
\* and its blocking calls and sleeps return
RunFairSpec == Init /\ [][RunNext]_vars /\ WF_vars(WorkerStep)

LifecycleNext ==
    \/ start_call
    \/ stop_call
    \/ stop_join
    \/ worker_tick
    \/ worker_exit
    \/ worker_sleep

LifecycleSpec == Init /\ [][LifecycleNext]_vars

\* the scheduler lets every live thread run: a worker's step and the
\* return of join are taken eventually
LifecycleFairSpec ==
    /\ LifecycleSpec
    /\ WF_vars(worker_tick)
    /\ WF_vars(worker_exit)
    /\ WF_vars(worker_sleep)
    /\ WF_vars(stop_join)

(* ---------------------------- TelegramUsersDB -------------------------- *)
(* self.users maps a Telegram id to the list of its MangaBuff accounts; a  *)
(* function whose domain is the set of registered Telegram ids.  _save_db  *)
(* writes the file and returns True, or returns False when writing fails.  *)
(* db records what the last call of the database returned: its success     *)
(* flag, the first component of the (success, message) pair.               *)

\* extract_id_from_url, lines 119-132
ExtractId(url) ==
    IF url.form = "at" THEN NoId
    ELSE IF url.form = "profile" THEN url.digits
    ELSE IF url.form = "number" THEN url.digits
    ELSE NoId

\* self.users[t] = accs
Put(u, t, accs) == [k \in DOMAIN u \cup {t} |-> IF k = t THEN accs ELSE u[k]]
\* del self.users[t]
Del(u, t) == [k \in DOMAIN u \ {t} |-> u[k]]
\* the position of the first account with this user_id, 0 when there is none
Find(accs, id) ==
    IF \E i \in DOMAIN accs : accs[i].user_id = id
    THEN CHOOSE i \in DOMAIN accs :
            /\ accs[i].user_id = id
            /\ \A j \in 1..(i-1) : accs[j].user_id # id
    ELSE 0
\* list.remove(x): the list without its first element equal to x
Remove(accs, x) ==
    LET i == CHOOSE i \in DOMAIN accs :
                 accs[i] = x /\ \A j \in 1..(i-1) : accs[j] # x
    IN SubSeq(accs, 1, i-1) \o SubSeq(accs, i+1, Len(accs))

\* mutant: register_account without the search for an existing entry
RegisterAccount_always_appends(u, t, url, type, written) ==
    LET id == ExtractId(url)
        accs == IF t \in DOMAIN u THEN u[t] ELSE <<>>
    IN IF id = NoId
       THEN [users |-> u, ok |-> FALSE]
       ELSE [users |-> Put(u, t, Append(accs, [user_id |-> id,
                                               notification_type |-> type])),
             ok |-> written]

\* register_account, lines 155-205: the database after the call and the
\* success flag it returns
RegisterAccount(u, t, url, type, written) ==
    LET id == ExtractId(url)
        accs == IF t \in DOMAIN u THEN u[t] ELSE <<>>
        i == Find(accs, id)
        acc == [user_id |-> id, notification_type |-> type]
    IN IF id = NoId
       THEN [users |-> u, ok |-> FALSE]
       ELSE [users |-> Put(u, t, IF i # 0 THEN [accs EXCEPT ![i] = acc]
                                 ELSE Append(accs, acc)),
             ok |-> written]

\* unregister_account, lines 222-250
UnregisterAccount(u, t, mb, written) ==
    IF t \notin DOMAIN u
    THEN [users |-> u, ok |-> FALSE]
    ELSE IF mb # NoToken
         THEN LET i == Find(u[t], mb)
              IN IF i = 0
                 THEN [users |-> u, ok |-> FALSE]
                 ELSE LET rest == Remove(u[t], u[t][i])
                      IN [users |-> IF rest = <<>> THEN Del(u, t)
                                    ELSE Put(u, t, rest),
                          ok |-> written]
         ELSE [users |-> Del(u, t), ok |-> written]

\* mutant: set_notification_type without the test of the type
SetNotificationType_unchecked(u, t, mb, type, written) ==
    IF t \notin DOMAIN u
    THEN [users |-> u, ok |-> FALSE]
    ELSE LET i == Find(u[t], mb)
         IN IF i = 0
            THEN [users |-> u, ok |-> FALSE]
            ELSE [users |-> Put(u, t, [u[t] EXCEPT ![i].notification_type = type]),
                  ok |-> written]

\* mutant: set_notification_type changes the account of whoever has it
SetNotificationType_any_owner(u, t, mb, type, written) ==
    IF type \notin {"dm", "tag"}
    THEN [users |-> u, ok |-> FALSE]
    ELSE IF \A k \in DOMAIN u : Find(u[k], mb) = 0
         THEN [users |-> u, ok |-> FALSE]
         ELSE [users |-> [k \in DOMAIN u |->
                             IF Find(u[k], mb) = 0 THEN u[k]
                             ELSE [u[k] EXCEPT ![Find(u[k], mb)].notification_type = type]],
               ok |-> written]

\* set_notification_type, lines 339-377
SetNotificationType(u, t, mb, type, written) ==
    IF type \notin {"dm", "tag"}
    THEN [users |-> u, ok |-> FALSE]
    ELSE IF t \notin DOMAIN u
         THEN [users |-> u, ok |-> FALSE]
         ELSE LET i == Find(u[t], mb)
              IN IF i = 0
                 THEN [users |-> u, ok |-> FALSE]
                 ELSE [users |-> Put(u, t, [u[t] EXCEPT ![i].notification_type = type]),
                       ok |-> written]

\* the success flag of a call that returned r
Returned(r) == [ok |-> r.ok]

\* a call of register_account with any arguments
register_account ==
    /\ \E t \in TgIds, url \in Urls, type \in Types, written \in BOOLEAN :
         LET r == RegisterAccount(users, t, url, type, written)
         IN /\ users' = r.users
            /\ db' = Returned(r)
    /\ UNCHANGED sender
    /\ UNCHANGED polling
    /\ UNCHANGED replies
    /\ UNCHANGED monitor

\* a call of unregister_account with any arguments
unregister_account ==
    /\ \E t \in TgIds, mb \in Tokens \cup {NoToken}, written \in BOOLEAN :
         LET r == UnregisterAccount(users, t, mb, written)
         IN /\ users' = r.users
            /\ db' = Returned(r)
    /\ UNCHANGED sender
    /\ UNCHANGED polling
    /\ UNCHANGED replies
    /\ UNCHANGED monitor

\* a call of set_notification_type with any arguments
set_notification_type ==
    /\ \E t \in TgIds, mb \in Tokens, type \in Types, written \in BOOLEAN :
         LET r == SetNotificationType(users, t, mb, type, written)
         IN /\ users' = r.users
            /\ db' = Returned(r)
    /\ UNCHANGED sender
    /\ UNCHANGED polling
    /\ UNCHANGED replies
    /\ UNCHANGED monitor

DbNext ==
    \/ register_account
    \/ unregister_account
    \/ set_notification_type

\* the bot is constructed next to a monitor that was given a notifier; no
\* step of the bot reads the monitor's state
BotInit == Init /\ notifier_enabled

DbSpec == BotInit /\ [][DbNext]_vars

(* ---------------------------- commands and buttons --------------------- *)
(* process_command handles a text message of a private chat and            *)
(* process_callback_query a press on an inline button.  Both answer with   *)
(* messages, which change nothing here, and reach the database through     *)
(* unregister_account, register_account and set_notification_type.         *)
(* sender is the Telegram user whose message or press was handled last.    *)

\* no link in the text
NoUrl == [form |-> "none", digits |-> NoId]
\* the texts of private messages: a command name, "/remove" followed by a
\* word, or a text that does not start with "/"
Commands ==
    {[name |-> n, id |-> NoToken, url |-> NoUrl] :
        n \in {"/start", "/add", "/list", "/remove", "/help", "/stats", "/other"}}
    \cup {[name |-> "/remove", id |-> k, url |-> NoUrl] : k \in Tokens}
    \cup {[name |-> "text", id |-> NoToken, url |-> url] : url \in Urls}
\* callback data, split at ":": "back_to_list", "account:<id>",
\* "notify:<id>:<type>", data that starts with "notify:" and has two or four
\* parts, and any other data
Callbacks ==
    {[head |-> h, parts |-> 1, id |-> 0, type |-> "other"] :
        h \in {"back_to_list", "other"}}
    \cup {[head |-> "account", parts |-> 2, id |-> k, type |-> "other"] : k \in Tokens}
    \cup {[head |-> "notify", parts |-> n, id |-> 0, type |-> "other"] : n \in {2, 4}}
    \cup [head : {"notify"}, parts : {3}, id : Tokens, type : Types]

\* process_command, lines 360-494: the database after the command and what
\* the last call of the database returned
ProcessCommand(u, from, c, written) ==
    IF c.name \in {"/start", "/add", "/list"}
    THEN [users |-> u, ok |-> db.ok]
    ELSE IF c.name = "/remove"
    THEN IF c.id # NoToken
         THEN UnregisterAccount(u, from, c.id, written)
         ELSE [users |-> u, ok |-> db.ok]
    ELSE IF c.name \in {"/help", "/stats"}
    THEN [users |-> u, ok |-> db.ok]
    ELSE IF c.name = "text"
    THEN RegisterAccount(u, from, c.url, "dm", written)
    ELSE [users |-> u, ok |-> db.ok]

\* process_callback_query, lines 314-350, with
\* set_notification_type_via_button, lines 282-308
ProcessCallbackQuery(u, from, q, written) ==
    IF q.head = "back_to_list" /\ q.parts = 1
    THEN [users |-> u, ok |-> db.ok]
    ELSE IF q.head = "account"
    THEN [users |-> u, ok |-> db.ok]
    ELSE IF q.head = "notify"
    THEN IF q.parts = 3
         THEN SetNotificationType(u, from, q.id, q.type, written)
         ELSE [users |-> u, ok |-> db.ok]
    ELSE [users |-> u, ok |-> db.ok]

\* a private message of a Telegram user is handled
process_command ==
    /\ \E from \in TgIds, c \in Commands, written \in BOOLEAN :
         LET r == ProcessCommand(users, from, c, written)
         IN /\ users' = r.users
            /\ db' = Returned(r)
            /\ sender' = from
    /\ UNCHANGED polling
    /\ UNCHANGED replies
    /\ UNCHANGED monitor

\* a press on a button is handled; the press may carry no user id
process_callback_query ==
    /\ \E from \in TgIds \cup {NoSender}, q \in Callbacks, written \in BOOLEAN :
         LET r == ProcessCallbackQuery(users, from, q, written)
         IN /\ users' = r.users
            /\ db' = Returned(r)
            /\ sender' = from
    /\ UNCHANGED polling
    /\ UNCHANGED replies
    /\ UNCHANGED monitor

CommandNext ==
    \/ process_command
    \/ process_callback_query

CommandSpec == BotInit /\ [][CommandNext]_vars

(* ---------------------------- replies to the bot's messages ----------- *)
(* bot_message_ids is the set register_bot_message fills; invocations      *)
(* counts, for each message id, the calls of on_replace_triggered since    *)
(* the id was registered last (2 stands for two or more); cur is the       *)
(* message the last step handled.                                          *)

\* text.lower() of one word
Lower(w) == IF w = "Replace" THEN "replace" ELSE w

\* _is_trigger_message, lines 157-163
IsTriggerMessage(text) ==
    IF text = <<>> THEN FALSE
    ELSE \E i \in DOMAIN text : Lower(text[i]) \in TRIGGER_KEYWORDS

\* one more call, counted up to two
Invoked(inv, m) == [inv EXCEPT ![m] = IF inv[m] < 2 THEN inv[m] + 1 ELSE 2]

\* process_reply, lines 505-525: the registered ids and the calls counted
\* after a reply to message m
ProcessReply(ids, inv, m, text, callback) ==
    IF m \notin ids
    THEN [ids |-> ids, inv |-> inv]
    ELSE IF ~IsTriggerMessage(text)
    THEN [ids |-> ids, inv |-> inv]
    ELSE IF callback = "none"
    THEN [ids |-> ids \ {m}, inv |-> inv]
    ELSE IF callback = "returns"
    THEN [ids |-> ids \ {m}, inv |-> Invoked(inv, m)]
    ELSE [ids |-> ids, inv |-> Invoked(inv, m)]

\* mutant: the thread of the message is not compared
HandleMessage_any_thread(ids, inv, msg, callback) ==
    IF msg.chat = "missing" \/ msg.text = <<>>
    THEN [ids |-> ids, inv |-> inv]
    ELSE IF msg.chat = "private"
    THEN [ids |-> ids, inv |-> inv]
    ELSE IF msg.chat = "configured"
    THEN IF msg.reply_to # NoReply
         THEN ProcessReply(ids, inv, msg.reply_to, msg.text, callback)
         ELSE [ids |-> ids, inv |-> inv]
    ELSE [ids |-> ids, inv |-> inv]

\* process_updates, lines 576-609: what a message does to the registered
\* ids (a private message goes to process_command)
HandleMessage(ids, inv, msg, callback) ==
    IF msg.chat = "missing" \/ msg.text = <<>>
    THEN [ids |-> ids, inv |-> inv]
    ELSE IF msg.chat = "private"
    THEN [ids |-> ids, inv |-> inv]
    ELSE IF msg.chat = "configured"
    THEN IF msg.thread = "other"
         THEN [ids |-> ids, inv |-> inv]
         ELSE IF msg.reply_to # NoReply
              THEN ProcessReply(ids, inv, msg.reply_to, msg.text, callback)
              ELSE [ids |-> ids, inv |-> inv]
    ELSE [ids |-> ids, inv |-> inv]

\* register_bot_message(m)
register_bot_message ==
    /\ \E m \in MsgIds :
         /\ bot_message_ids' = bot_message_ids \cup {m}
         /\ invocations' = [invocations EXCEPT ![m] = 0]
    /\ cur' = NoUpdate
    /\ UNCHANGED database
    /\ UNCHANGED polling
    /\ UNCHANGED monitor

\* the loop body of process_updates for an update that carries a message
handle_message ==
    /\ \E msg \in Messages, callback \in Callbacks_on_replace :
         LET r == HandleMessage(bot_message_ids, invocations, msg, callback)
         IN /\ bot_message_ids' = r.ids
            /\ invocations' = r.inv
            /\ cur' = msg
    /\ UNCHANGED database
    /\ UNCHANGED polling
    /\ UNCHANGED monitor

ReplyNext ==
    \/ register_bot_message
    \/ handle_message

ReplySpec == BotInit /\ [][ReplyNext]_vars

(* ---------------------------- polling_loop ----------------------------- *)
(* The polling thread asks the Telegram server for the updates from        *)
(* offset last_update_id + 1 on and handles them one by one.  The server   *)
(* holds the updates 1..arrived; a request with an offset confirms, and    *)
(* makes the server forget, every update below the offset: confirmed is    *)
(* the highest id confirmed.  updates is the rest of the batch the loop    *)
(* of process_updates is going through; handled[i] counts how often update *)
(* i was handled (2 stands for two or more) and tells whether its last     *)
(* handling raised.  What the handling of a message, a command or a button *)
(* does is the subject of the specifications above; here it returns or     *)
(* raises.  poll_pc is the position of the polling thread.                 *)

Max(a, b) == IF a >= b THEN a ELSE b

\* the ids from a to b in ascending order
Range(a, b) == [i \in 1..(b - a + 1) |-> a + i - 1]

\* the getUpdates request of get_updates, line 532
Offset == last_update_id + 1

\* the first update the server still holds at or above the offset
FirstHeld == Max(Offset, confirmed + 1)

\* mutant: process_updates finished and the count is kept
AfterIteration_keeps(errors) == errors

\* polling_loop, line 626: process_updates returned
AfterIteration(errors) == 0

\* start() of the handler, with the first lines of polling_loop
handler_start ==
    /\ ~handler_running
    /\ poll_pc \in {"idle", "exited"}
    /\ handler_running' = TRUE
    /\ poll_pc' = "loop_head"
    /\ consecutive_errors' = 0
    /\ UNCHANGED <<last_update_id, confirmed, arrived, updates, handled>>
    /\ UNCHANGED database
    /\ UNCHANGED replies
    /\ UNCHANGED monitor

\* stop() of the handler
handler_stop ==
    /\ handler_running
    /\ handler_running' = FALSE
    /\ UNCHANGED <<poll_pc, consecutive_errors, last_update_id, confirmed,
                   arrived, updates, handled>>
    /\ UNCHANGED database
    /\ UNCHANGED replies
    /\ UNCHANGED monitor

\* Telegram receives a message or a button press for the bot
update_arrives ==
    /\ arrived < MaxUpdates
    /\ arrived' = arrived + 1
    /\ UNCHANGED <<handler_running, poll_pc, consecutive_errors,
                   last_update_id, confirmed, updates, handled>>
    /\ UNCHANGED database
    /\ UNCHANGED replies
    /\ UNCHANGED monitor

\* while self.running: false, the thread ends
polling_loop_exit ==
    /\ poll_pc = "loop_head"
    /\ ~handler_running
    /\ poll_pc' = "exited"
    /\ UNCHANGED <<handler_running, consecutive_errors, last_update_id,
                   confirmed, arrived, updates, handled>>
    /\ UNCHANGED database
    /\ UNCHANGED replies
    /\ UNCHANGED monitor

\* an iteration whose get_updates returns []: the request failed or timed
\* out (answered is false) or the server had nothing new
polling_loop_no_updates ==
    /\ poll_pc = "loop_head"
    /\ handler_running
    /\ \E answered \in BOOLEAN :
         /\ answered => FirstHeld > arrived
         /\ confirmed' = IF answered THEN Max(confirmed, Offset - 1)
                         ELSE confirmed
    /\ consecutive_errors' = AfterIteration(consecutive_errors)
    /\ UNCHANGED <<handler_running, poll_pc, last_update_id, arrived,
                   updates, handled>>
    /\ UNCHANGED database
    /\ UNCHANGED replies
    /\ UNCHANGED monitor

\* an iteration whose get_updates returns updates: the server answers with
\* the updates it holds from the offset on, or with the first of them
polling_loop_get_updates ==
    /\ poll_pc = "loop_head"
    /\ handler_running
    /\ FirstHeld <= arrived
    /\ \E last \in FirstHeld..arrived :
         updates' = Range(FirstHeld, last)
    /\ confirmed' = Max(confirmed, Offset - 1)
    /\ poll_pc' = "for"
    /\ UNCHANGED <<handler_running, consecutive_errors, last_update_id,
                   arrived, handled>>
    /\ UNCHANGED database
    /\ UNCHANGED replies
    /\ UNCHANGED monitor

\* an iteration in which process_updates raises: the answer of the server
\* is no list of updates
polling_loop_raises ==
    /\ poll_pc = "loop_head"
    /\ handler_running
    /\ confirmed' = Max(confirmed, Offset - 1)
    /\ consecutive_errors' = consecutive_errors + 1
    /\ IF consecutive_errors + 1 >= max_errors
       THEN /\ handler_running' = FALSE
            /\ poll_pc' = "exited"
       ELSE UNCHANGED <<handler_running, poll_pc>>
    /\ UNCHANGED <<last_update_id, arrived, updates, handled>>
    /\ UNCHANGED database
    /\ UNCHANGED replies
    /\ UNCHANGED monitor

\* mutant: self.last_update_id is assigned after the update was handled
process_update_id_after_handling ==
    /\ poll_pc = "for"
    /\ updates # <<>>
    /\ \E raised \in BOOLEAN :
         LET id == Head(updates)
         IN /\ last_update_id' = IF raised THEN last_update_id ELSE id
            /\ handled' = [handled EXCEPT ![id] =
                              [times |-> IF @.times < 2 THEN @.times + 1 ELSE 2,
                               raised |-> raised]]
    /\ updates' = Tail(updates)
    /\ IF Tail(updates) = <<>>
       THEN /\ poll_pc' = "loop_head"
            /\ consecutive_errors' = AfterIteration(consecutive_errors)
       ELSE UNCHANGED <<poll_pc, consecutive_errors>>
    /\ UNCHANGED <<handler_running, confirmed, arrived>>
    /\ UNCHANGED database
    /\ UNCHANGED replies
    /\ UNCHANGED monitor

\* process_updates, lines 565-612: one pass of the for loop; after the last
\* update of the batch process_updates returns
process_update ==
    /\ poll_pc = "for"
    /\ updates # <<>>
    /\ \E raised \in BOOLEAN :
         LET id == Head(updates)
         IN /\ last_update_id' = id
            /\ handled' = [handled EXCEPT ![id] =
                              [times |-> IF @.times < 2 THEN @.times + 1 ELSE 2,
                               raised |-> raised]]
    /\ updates' = Tail(updates)
    /\ IF Tail(updates) = <<>>
       THEN /\ poll_pc' = "loop_head"
            /\ consecutive_errors' = AfterIteration(consecutive_errors)
       ELSE UNCHANGED <<poll_pc, consecutive_errors>>
    /\ UNCHANGED <<handler_running, confirmed, arrived>>
    /\ UNCHANGED database
    /\ UNCHANGED replies
    /\ UNCHANGED monitor

PollNext ==
    \/ handler_start
    \/ handler_stop
    \/ update_arrives
    \/ polling_loop_exit
    \/ polling_loop_no_updates
    \/ polling_loop_get_updates
    \/ polling_loop_raises
    \/ process_update

PollSpec == BotInit /\ [][PollNext]_vars

TypeOK ==
    /\ running \in BOOLEAN
    /\ card_changed \in BOOLEAN
    /\ current_card_id \in 0..MaxCardId
    /\ boost_available \in BOOLEAN
    /\ saved \in FetchResults
    /\ check_count \in 0..MaxChecks
    /\ boost_card \in FetchResults
    /\ new_boost_card \in FetchResults
    /\ new_card_id \in 0..MaxCardId
    /\ success \in BOOLEAN
    /\ thread \in 0..MaxThreads
    /\ workers \in [1..MaxThreads -> {"unborn", "loop_head", "tick", "exited"}]
    /\ caller \in {"idle", "joining"}

(* ---------------------------- the tick's history ----------------------- *)
HasOp(op) == \E i \in DOMAIN trace : trace[i].op = op
Has(op, res) == \E i \in DOMAIN trace : trace[i].op = op /\ trace[i].res = res
Count(op) == Cardinality({i \in DOMAIN trace : trace[i].op = op})
\* the calls the loop and the pipeline make for a detected boost, up to
\* and including _send_contribute_request
PipelineCalls == {"can_donate", "get_card", "submit"}
\* positions of the worker at which one of these calls is about to be made
PipelineCallPcs == {"loop_quota", "cc_quota", "cc_fetch", "cc_quota2", "cc_submit"}
\* positions inside handle_card_change_without_boost
HandlerPcs == {"h_cancel", "h_refetch", "h_notify", "h_save"}
\* the tick is over: the worker sleeps, or has gone on to the loop condition
TickOver == pc \in {"sleep", "loop_head", "exited"}
\* the request was sent successfully and the second fetch gave a
\* descriptor whose card id differs from the one captured before sending
SubmittedAndChanged ==
    /\ Has("submit", "ok")
    /\ Has("refetch", "ok")
    /\ new_boost_card.card_id # boost_card.card_id
\* ... whose card id equals the one captured before sending
SubmittedAndUnchanged ==
    /\ Has("submit", "ok")
    /\ Has("refetch", "ok")
    /\ new_boost_card.card_id = boost_card.card_id
\* the first quota query of the tick allowed and a later one denied
DeniedAfterAllowed ==
    \E i, j \in DOMAIN trace :
        /\ i < j
        /\ trace[i].op = "can_donate" /\ trace[i].res = "allow"
        /\ \A k \in 1..(i-1) : trace[k].op # "can_donate"
        /\ trace[j].op = "can_donate" /\ trace[j].res = "deny"
\* no call of this tick has raised an exception
NoRaise == \A i \in DOMAIN trace : trace[i].res # "raise"
\* contribute_card was entered in this tick and has returned False
AttemptFailed == Count("can_donate") >= 2 /\ ~success
\* the loop's own quota check (line 481) denied
LoopDenied ==
    /\ Count("can_donate") = 1
    /\ Has("can_donate", "deny")

(* ---------------------------- C1 --------------------------------------- *)
\* C1: in a tick in which the boost is found, card_changed is set to TRUE
\* right after the probe and before every later call of that tick: every
\* quota query, the descriptor fetch and _send_contribute_request come
\* after the flag write, and the flag is TRUE whenever one of them is about
\* to be made.
C1_CancellationPrecedesIO ==
    /\ \A i \in DOMAIN trace :
         trace[i].op \in PipelineCalls =>
            \E j \in 1..(i-1) : trace[j].op = "set_flag"
    /\ \A i \in DOMAIN trace :
         (trace[i].op = "probe" /\ trace[i].res = "found") =>
            (i < Len(trace) /\ trace[i+1].op = "set_flag")
    /\ pc \in PipelineCallPcs => card_changed

C1_Witness == Has("submit", "ok") /\ HasOp("set_flag") /\ Count("can_donate") = 3

(* ---------------------------- C2 --------------------------------------- *)
\* C2: when the first quota query of a tick allows and a later one denies,
\* the request is never sent in that tick, no notification is sent, and
\* card_changed is FALSE once the tick is over; every sent request is
\* preceded in its tick only by quota queries that allowed.
C2_QuotaDoubleCheck ==
    /\ DeniedAfterAllowed =>
         /\ ~HasOp("submit")
         /\ ~HasOp("notify")
         /\ TickOver => ~card_changed
    /\ \A i \in DOMAIN trace :
         trace[i].op = "submit" =>
            \A j \in 1..(i-1) :
               trace[j].op = "can_donate" => trace[j].res = "allow"

C2_Witness == pc = "sleep" /\ DeniedAfterAllowed /\ Count("can_donate") = 3

(* ---------------------------- C3 --------------------------------------- *)
\* C3 as stated: in an attempt whose request succeeded and whose second
\* fetch shows another card id, every _cancel_pending_trades call and every
\* refresh_stats call is preceded by a notify_card_change call.
C3_NotifyBeforeCleanup_asStated ==
    SubmittedAndChanged =>
       \A i \in DOMAIN trace :
          trace[i].op \in {"cancel", "refresh"} =>
             \E j \in 1..(i-1) : trace[j].op = "notify"

\* C3 amended: the same, for a monitor whose notifier is present and
\* enabled: notify_card_change is called before _cancel_pending_trades and
\* before refresh_stats, and never after either of them.
C3_NotifyBeforeCleanup ==
    (notifier_enabled /\ SubmittedAndChanged) =>
       /\ \A i \in DOMAIN trace :
            trace[i].op \in {"cancel", "refresh"} =>
               \E j \in 1..(i-1) : trace[j].op = "notify"
       /\ \A i \in DOMAIN trace :
            trace[i].op = "notify" =>
               \A j \in 1..(i-1) : trace[j].op \notin {"cancel", "refresh"}

C3_Witness ==
    /\ notifier_enabled
    /\ SubmittedAndChanged
    /\ HasOp("notify") /\ HasOp("cancel") /\ HasOp("refresh")

(* ---------------------------- C4 --------------------------------------- *)
\* C4: when a tick in which the boost was found is over and contribute_card
\* returned False (in particular after _send_contribute_request returned
\* False) or the loop's quota check denied, card_changed is FALSE.
C4_FlagResetOnFailure ==
    (TickOver /\ HasOp("set_flag")) =>
       /\ Has("submit", "fail") => ~card_changed
       /\ AttemptFailed => ~card_changed
       /\ LoopDenied => ~card_changed

C4_Witness == pc = "sleep" /\ Has("submit", "fail") /\ ~card_changed

(* ---------------------------- C5 --------------------------------------- *)
\* C5: once the request of a tick has been sent successfully, card_changed
\* is TRUE in every state of the rest of the pipeline and of the tick
\* (stated for the ticks in which no call raised, which the claim covers).
C5_FlagHeldAfterSubmit == (Has("submit", "ok") /\ NoRaise) => card_changed

(* ---------------------------- C6 --------------------------------------- *)
\* C6: contribute_card returns True exactly when _send_contribute_request
\* returned True, whatever the later steps did (stated for the attempts in
\* which no call raised, which the claim covers).
C6_SuccessIffSubmitted ==
    (pc = "loop_result" /\ NoRaise) => (success <=> Has("submit", "ok"))

(* ---------------------------- C7 --------------------------------------- *)
\* C7: right after a successful identity read of a tick, current_card_id
\* is the card id that was read.
C7_IdUpdatedOnRead ==
    (Len(trace) >= 1 /\ trace[Len(trace)].op = "identity"
                     /\ trace[Len(trace)].res = "ok") =>
       current_card_id = trace[Len(trace)].d.card_id

(* ---------------------------- C8 --------------------------------------- *)
\* C8: handle_card_change_without_boost runs only in a tick that began with
\* current_card_id set and whose identity read gave a card id that is set
\* and different from it; while current_card_id is unset the handler is
\* never entered.
C8_NoSpuriousFirstTick ==
    pc \in HandlerPcs =>
       /\ current_card_id # NoCard
       /\ trace[1].op = "identity" /\ trace[1].res = "ok"
       /\ trace[1].d.card_id # NoCard
       /\ trace[1].d.card_id # current_card_id
       /\ new_card_id = trace[1].d.card_id

C8_Witness == pc = "h_save"

(* ---------------------------- C9 --------------------------------------- *)
\* the boost was found, every quota query allowed, the request succeeded
\* and the second fetch shows another card id; the tick is over
ScenarioA ==
    /\ pc = "sleep"
    /\ HasOp("set_flag")
    /\ \A i \in DOMAIN trace : trace[i].op = "can_donate" => trace[i].res = "allow"
    /\ SubmittedAndChanged

\* notify_card_change was called once, with the re-fetched descriptor; the
\* saved record is that descriptor; current_card_id is its card id
ScenarioAOutcome ==
    /\ Count("notify") = 1
    /\ \A i \in DOMAIN trace : trace[i].op = "notify" => trace[i].d = new_boost_card
    /\ saved = new_boost_card
    /\ current_card_id = new_boost_card.card_id

C10_UnchangedStillSucceeds ==
    (pc = "loop_result" /\ SubmittedAndUnchanged) =>
       /\ success
       /\ current_card_id = boost_card.card_id
       /\ ~HasOp("notify")

(* ---------------------------- C11 -------------------------------------- *)
\* the names of the calls of the tick, in order
Ops == [i \in DOMAIN trace |-> trace[i].op]
IsPrefix(a, b) == Len(a) <= Len(b) /\ \A i \in DOMAIN a : a[i] = b[i]
\* the order of a complete run of handle_card_change_without_boost
HandlerOrder == <<"identity", "cancel", "settle", "refetch", "notify", "save">>
\* the same without a notifier
HandlerOrderSilent == <<"identity", "cancel", "settle", "refetch", "save">>
\* the handler was dispatched in this tick and the tick is over
HandlerTickOver == pc = "sleep" /\ new_card_id # NoCard

C12_SavedInBothBranches ==
    (pc = "loop_result" /\ Has("submit", "ok") /\ Has("refetch", "ok") /\ NoRaise) =>
       /\ Has("save", "ok")
       /\ saved = new_boost_card

(* ---------------------------- C13 -------------------------------------- *)
\* the steps of contribute_card that follow the request
LaterSteps == {"settle", "refetch", "notify", "unchanged", "save", "cancel", "refresh"}

\* C13: in a tick in which the boost was found, as long as no request has
\* succeeded (so also after a quota denial, a missing descriptor, a
\* descriptor without instance id or a failed request) none of the later
\* steps has been made, and no step changes current_card_id or the saved
\* record.
C13_NoLaterStepsOnFailure ==
    /\ []((HasOp("set_flag") /\ ~Has("submit", "ok")) =>
            \A i \in DOMAIN trace : trace[i].op \notin LaterSteps)
    /\ [][((HasOp("set_flag") /\ ~Has("submit", "ok"))') =>
            (current_card_id' = current_card_id /\ saved' = saved)]_vars

C13_Witness ==
    /\ pc = "sleep"
    /\ Has("get_card", "ok")
    /\ boost_card = None
    /\ ~HasOp("submit")
    /\ ~success

(* ---------------------------- C14 -------------------------------------- *)
\* C14: no failure of a collaborator ends monitor_loop: the worker is never
\* ended by an exception, and it has returned only when running is FALSE.
C14_LoopEndsOnlyOnStop ==
    /\ pc # "crashed"
    /\ pc = "exited" => ~running

(* ---------------------------- C15 -------------------------------------- *)
\* C15: when notify_card_change returned False or raised in an attempt
\* with a changed card id, contribute_card still saves the descriptor,
\* sets current_card_id, cancels the trades, refreshes the statistics and
\* returns True.
C15_NotifyFailureDoesNotAbort ==
    (/\ pc = "loop_result"
     /\ SubmittedAndChanged
     /\ (Has("notify", "fail") \/ Has("notify", "raise"))) =>
       /\ Has("save", "ok")
       /\ current_card_id = new_boost_card.card_id
       /\ HasOp("cancel")
       /\ HasOp("refresh")
       /\ success

(* ---------------------------- C16 -------------------------------------- *)
\* a cleanup step after the request has failed
CleanupFailed ==
    \/ Has("save", "raise")
    \/ Has("cancel", "fail")
    \/ Has("cancel", "raise")
    \/ Has("refresh", "raise")

\* C16: a failed cleanup step after a successful request (and a successful
\* second fetch) does not undo the contribution: contribute_card returns
\* True and card_changed is not reset in that tick.
C16_CleanupFailureKeepsSuccess ==
    (Has("submit", "ok") /\ Has("refetch", "ok") /\ CleanupFailed) =>
       /\ pc = "loop_result" => success
       /\ TickOver => card_changed

(* ---------------------------- C20 -------------------------------------- *)
\* the quota queries made before position i of the tick
QueriesBefore(i) ==
    Cardinality({j \in 1..(i-1) : trace[j].op = "can_donate"})

Called(op) == api'.seq # api.seq /\ api'.op = op

\* C17: a start() call made while running is TRUE changes neither running
\* nor self.thread and launches no worker; a start() call made while
\* running is FALSE sets running and launches exactly one worker, which
\* becomes self.thread.
C17_StartOnlyWhenStopped ==
    [][Called("start") =>
         IF running
         THEN UNCHANGED <<running, thread, workers>>
         ELSE /\ running'
              /\ thread' \notin Alive
              /\ Alive' = Alive \cup {thread'}]_vars

C17_Witness ==
    /\ api.op = "start"
    /\ api.was_running
    /\ Cardinality(Alive) = 1
    /\ \A w \in 1..MaxThreads : w # thread => workers[w] = "unborn"

(* ---------------------------- C18 -------------------------------------- *)
\* C18: a stop() call made while running is FALSE changes nothing and does
\* not join; after every stop() call running is FALSE, so a second call in
\* a row leaves the state of the first.
C18_StopIdempotent ==
    [][Called("stop") =>
         /\ ~running'
         /\ ~running => UNCHANGED <<running, thread, workers, caller>>]_vars

C18_Witness ==
    /\ api.op = "stop"
    /\ ~api.was_running
    /\ thread # NoThread
    /\ caller = "idle"

(* ---------------------------- C19 -------------------------------------- *)
\* C19: while running stays FALSE no worker begins a tick; when running
\* has become FALSE, either it is set again or every worker has returned
\* in the end; and the join of stop() always ends, with the worker
\* returned or not.
C19_StopEndsTheLoop ==
    /\ [][(~running /\ ~running') =>
            \A w \in 1..MaxThreads :
               workers'[w] = "tick" => workers[w] = "tick"]_vars
    /\ (~running) ~> (running \/ Alive = {})
    /\ (caller = "joining") ~> (caller = "idle")

C19_Witness ==
    /\ api.op = "stop"
    /\ api.join = "timeout"
    /\ ~running
    /\ thread # NoThread
    /\ Alive = {}


(* ---------------------------- C21 -------------------------------------- *)
\* check_card_changed returned a card id in this tick
Detected == new_card_id # NoCard

\* C21: in a tick in which check_card_changed returned a card id, the
\* worker goes into handle_card_change_without_boost (its first call,
\* _cancel_pending_trades, is the next call of the tick) and
\* check_boost_available is not called in that tick, whatever the handler
\* returns; and check_boost_available is only ever called after the
\* identity read of its tick.
C21_HandlerInsteadOfProbe ==
    /\ Detected =>
         /\ ~HasOp("probe")
         /\ pc \in HandlerPcs \cup {"sleep", "loop_head", "exited"}
         /\ Len(trace) = 1 => pc = "h_cancel"
         /\ Len(trace) >= 2 => trace[2].op = "cancel"
    /\ \A i \in DOMAIN trace :
         trace[i].op = "probe" => (i = 2 /\ trace[1].op = "identity")
    /\ pc = "probe" => (Len(trace) = 1 /\ trace[1].op = "identity")

\* the handler failed (its re-fetch gave nothing) and the tick is over
C21_Witness ==
    /\ pc = "sleep"
    /\ Detected
    /\ Has("refetch", "fail")
    /\ check_count = MaxChecks

(* ---------------------------- C22 -------------------------------------- *)
\* the identity read of this tick failed
IdentityFailed == Has("identity", "fail")

\* C22: a failed identity read does not end the worker: the next call of
\* the tick is check_boost_available, handle_card_change_without_boost is
\* not entered in that tick, and the step of the failed read leaves
\* current_card_id and card_changed as they were.
C22_IdentityFailureNotFatal ==
    /\ [](IdentityFailed =>
            /\ ~Detected
            /\ pc \notin HandlerPcs
            /\ Len(trace) = 1 => pc = "probe"
            /\ Len(trace) >= 2 => trace[2].op = "probe")
    /\ [][(trace = <<>> /\ Len(trace') = 1 /\ IdentityFailed') =>
            UNCHANGED <<current_card_id, card_changed, saved, running>>]_vars

C22_Witness ==
    /\ IdentityFailed
    /\ Has("probe", "found")
    /\ current_card_id # NoCard
    /\ card_changed


(* ---------------------------- C23 -------------------------------------- *)
\* the call just made was a quota query that denied
JustDenied ==
    /\ Len(trace') = Len(trace) + 1
    /\ trace'[Len(trace')] = Event("can_donate", "deny", None)

\* C23: card_changed goes from TRUE to FALSE only in the last step of a
\* tick in which the boost was found, and only when contribute_card has
\* returned False or the loop's quota query has denied; when a tick ends
\* after a handler that returned True or after a contribute_card that
\* returned True, card_changed is TRUE.  So the flag stays TRUE from there
\* until a tick with a failed attempt or a denied quota.
C23_FlagResetOnlyOnFailure ==
    /\ [][(card_changed /\ ~card_changed') =>
            /\ HasOp("set_flag")
            /\ pc' = "sleep"
            /\ \/ pc = "loop_result" /\ ~success
               \/ pc = "loop_quota" /\ JustDenied]_vars
    /\ []((TickOver /\ Detected /\ Has("save", "ok")) => card_changed)
    /\ []((TickOver /\ HasOp("set_flag") /\ success) => card_changed)

\* the first tick contributed, the second found the boost and was denied
C23_Witness ==
    /\ check_count = 2
    /\ pc = "sleep"
    /\ boost_available
    /\ LoopDenied
    /\ ~card_changed


(* ---------------------------- C24 -------------------------------------- *)
\* the handler ran in this tick and its re-fetch gave nothing
HandlerRefetchFailed == Detected /\ Has("refetch", "fail")
\* the handler ran in this tick and its re-fetch gave a descriptor
HandlerRefetched == Detected /\ Has("refetch", "ok")
\* the handler has called notify_card_change and recorded the new card id
HandlerNotifiedAndUpdated ==
    /\ Detected
    /\ HasOp("notify")
    /\ current_card_id = new_card_id
\* the handler has run to its end: notified if there is an enabled
\* notifier, and recorded the new card id if saving did not raise
HandlerCompleted ==
    /\ TickOver
    /\ Detected
    /\ notifier_enabled => HasOp("notify")
    /\ HasOp("save")
    /\ Has("save", "ok") => (saved = new_boost_card /\ current_card_id = new_card_id)

SubmittedAndRefetchFailed ==
    /\ Has("submit", "ok")
    /\ Has("refetch", "fail")

\* C25: when the re-fetch after a successful request fails, contribute_card
\* still calls _cancel_pending_trades and then refresh_stats before it
\* returns, and makes no notification, saves nothing and does not assign
\* current_card_id.
C25_CleanupAfterFailedRefetch ==
    (pc = "loop_result" /\ SubmittedAndRefetchFailed) =>
       /\ \E i, j \in DOMAIN trace :
            i < j /\ trace[i].op = "cancel" /\ trace[j].op = "refresh"
       /\ ~HasOp("notify")
       /\ ~HasOp("save")
       /\ ~HasOp("unchanged")

(* ---------------------------- C26 -------------------------------------- *)
\* the step is one of the worker thread: a worker is alive and moves on
WorkerMoves == pc \notin {"idle", "exited", "crashed"} /\ pc' # pc

\* C26 as stated: running, card_changed and current_card_id are written
\* in steps of the worker thread only.
C26_WorkerWritesAll_asStated ==
    [][(\/ running' # running
        \/ card_changed' # card_changed
        \/ current_card_id' # current_card_id) => WorkerMoves]_vars

\* C26 amended: card_changed and current_card_id are written in steps of
\* the worker thread only, and such a step never writes running; running
\* is written only by start() and stop(), in steps that are not the
\* worker's.  So no field is written from both sides.
C26_SingleWriterPerField ==
    [][/\ (card_changed' # card_changed \/ current_card_id' # current_card_id)
             => (WorkerMoves /\ running' = running)
       /\ running' # running
             => (~WorkerMoves /\ UNCHANGED <<card_changed, current_card_id>>)]_vars

\* stop() has written running while the worker, which has written the
\* other two fields, is still inside its tick
C26_Witness ==
    /\ ~running
    /\ pc = "sleep"
    /\ card_changed
    /\ current_card_id # NoCard

(* ---------------------------- C27 -------------------------------------- *)
\* C27: at most one thread is executing monitor_loop at any time, whatever
\* sequence of start() and stop() calls was made.
C27_AtMostOneWorker == Cardinality(Alive) <= 1

(* ---------------------------- C28 -------------------------------------- *)
\* the handler of this tick has returned True
HandlerSucceeded == TickOver /\ Detected /\ Has("save", "ok")

\* C28: when the handler has returned True, current_card_id is the card id
\* of the descriptor it notified and saved (so that the same card is not
\* taken for a change in the next tick).
C28_IdOfPersistedDescriptor ==
    HandlerSucceeded =>
       /\ saved = new_boost_card
       /\ current_card_id = saved.card_id
       /\ ~CardChanged(saved)

(* ---------------------------- C29 -------------------------------------- *)
\* the step is the call of _send_telegram_notification
NotifyStep ==
    /\ pc' # pc
    /\ \/ pc = "h_notify"
       \/ pc = "cc_compare" /\ new_boost_card.card_id # boost_card.card_id

\* C29: without an enabled notifier notify_card_change is never called;
\* with or without one, the step of the notification changes no field and
\* hands over to the save, and the steps after it are the same: the
\* handler saves, records the new card id and sets card_changed, the
\* pipeline saves, records the card id, sets card_changed, cancels the
\* trades and refreshes the statistics, each as far as no call raises.
C29_NotifierOptional ==
    /\ [](~notifier_enabled => ~HasOp("notify"))
    /\ [][NotifyStep =>
            /\ pc' = (IF pc = "h_notify" THEN "h_save" ELSE "cc_save")
            /\ notifier_enabled \/ trace' = trace
            /\ UNCHANGED <<running, card_changed, current_card_id,
                           boost_available, saved, success>>]_vars
    /\ []((TickOver /\ Detected /\ Has("refetch", "ok")) =>
            /\ HasOp("save")
            /\ Has("save", "ok") =>
                  /\ saved = new_boost_card
                  /\ current_card_id = new_card_id
                  /\ card_changed)
    /\ []((pc = "loop_result" /\ SubmittedAndChanged) =>
            /\ HasOp("save")
            /\ Has("save", "ok") =>
                  /\ saved = new_boost_card
                  /\ current_card_id = new_boost_card.card_id
                  /\ card_changed
                  /\ HasOp("cancel")
            /\ NoRaise => (HasOp("refresh") /\ success))

\* a pipeline run to its end without an enabled notifier
C29_Witness ==
    /\ ~notifier_enabled
    /\ pc = "loop_result"
    /\ SubmittedAndChanged
    /\ Has("save", "ok")
    /\ success

(* ---------------------------- C30 -------------------------------------- *)
\* a tick that found neither a changed card nor a boost
QuietTick == ~Detected /\ Has("probe", "none")

\* C30: in a quiet tick the status line is printed exactly when the tick
\* is the first one or its number is a multiple of
\* MONITOR_STATUS_INTERVAL, and then once; it is never printed in a tick
\* that found a changed card or a boost.
C30_Heartbeat ==
    /\ QuietTick =>
         (HasOp("status") <=>
             (check_count = 1 \/ check_count % MONITOR_STATUS_INTERVAL = 0))
    /\ Count("status") <= 1
    /\ HasOp("status") => QuietTick
    /\ (Detected \/ Has("probe", "found")) => ~HasOp("status")

\* a later quiet tick without a status line, after one with it
C30_Witness ==
    /\ check_count = MONITOR_STATUS_INTERVAL + 1
    /\ pc = "sleep"
    /\ QuietTick
    /\ ~HasOp("status")


(* ---------------------------- C35 -------------------------------------- *)
\* C35: whatever calls of register_account, unregister_account and
\* set_notification_type were made on an empty database, no account list
\* holds two entries with the same user_id and no registered Telegram id
\* has an empty account list.
C35_NoDuplicateNoEmpty ==
    \A t \in DOMAIN users :
       /\ users[t] # <<>>
       /\ \A i, j \in DOMAIN users[t] :
             users[t][i].user_id = users[t][j].user_id => i = j

\* a Telegram user holds two accounts of different types after a call that
\* succeeded
C35_Witness ==
    /\ db.ok
    /\ \E t \in DOMAIN users :
          /\ Len(users[t]) = 2
          /\ users[t][1].notification_type # users[t][2].notification_type

(* ---------------------------- C36 -------------------------------------- *)
\* C36: a call of register_account, unregister_account or
\* set_notification_type that returns failure leaves self.users as it was.
C36_FailureLeavesDatabase ==
    [][~db'.ok => users' = users]_vars


(* ---------------------------- C37 -------------------------------------- *)
\* C37: after any sequence of texts, commands and button presses every
\* account's notification_type is 'dm' or 'tag', and a call of
\* set_notification_type with any other type would return failure and leave
\* the database as it is.
C37_TypesValid ==
    /\ \A t \in DOMAIN users : \A i \in DOMAIN users[t] :
          users[t][i].notification_type \in {"dm", "tag"}
    /\ \A t \in TgIds \cup {NoSender}, mb \in Tokens, written \in BOOLEAN :
          LET r == SetNotificationType(users, t, mb, "other", written)
          IN ~r.ok /\ r.users = users

\* a press changed an account to 'tag' while another account of the same
\* user stays 'dm'
C37_Witness ==
    /\ sender \in DOMAIN users
    /\ db.ok
    /\ \E i, j \in DOMAIN users[sender] :
          /\ users[sender][i].notification_type = "tag"
          /\ users[sender][j].notification_type = "dm"

(* ---------------------------- C38 -------------------------------------- *)
\* C38: a command or a button press of one Telegram user leaves the entry
\* of every other Telegram user as it was: neither created, nor removed,
\* nor changed.
C38_OnlyOwnEntry ==
    [][\A t \in TgIds :
          t # sender' =>
             /\ (t \in DOMAIN users') = (t \in DOMAIN users)
             /\ t \in DOMAIN users => users'[t] = users[t]]_vars

\* the user handled last changed the type of an account whose id the other
\* user has registered too
C38_Witness ==
    /\ sender \in DOMAIN users
    /\ \E t \in DOMAIN users \ {sender} :
          \E i \in DOMAIN users[sender], j \in DOMAIN users[t] :
             /\ users[sender][i].user_id = users[t][j].user_id
             /\ users[sender][i].notification_type = "tag"
             /\ users[t][j].notification_type = "dm"


(* ---------------------------- C31 -------------------------------------- *)
\* C31: between two registrations of a bot message id, on_replace_triggered
\* is called for that id at most once.
C31_AtMostOncePerRegistration ==
    \A m \in MsgIds : invocations[m] <= 1

(* ---------------------------- C32 -------------------------------------- *)
\* this step handled a message
Handled == cur' # NoUpdate

\* C32: on_replace_triggered is called only for a message of the configured
\* chat, in the configured thread when one is set, that replies to a
\* registered id and holds a trigger keyword; a private message, a message
\* that is no reply, a reply to an id that is not registered and a reply
\* without a keyword call nothing and leave bot_message_ids as it is.
C32_OnlyTriggerReplies ==
    [][/\ \A m \in MsgIds :
            invocations'[m] > invocations[m] =>
               /\ Handled
               /\ cur'.chat = "configured"
               /\ cur'.thread # "other"
               /\ cur'.reply_to = m
               /\ m \in bot_message_ids
               /\ IsTriggerMessage(cur'.text)
       /\ (/\ Handled
           /\ \/ cur'.chat = "private"
              \/ cur'.reply_to = NoReply
              \/ cur'.reply_to \notin bot_message_ids
              \/ ~IsTriggerMessage(cur'.text))
          => /\ invocations' = invocations
             /\ bot_message_ids' = bot_message_ids]_vars

\* a reply with a keyword in another letter case called the callback and
\* the id is no longer registered, while another id still is
C32_Witness ==
    /\ cur.chat = "configured"
    /\ cur.reply_to # NoReply
    /\ cur.text = <<"ok", "Replace">>
    /\ invocations[cur.reply_to] = 1
    /\ cur.reply_to \notin bot_message_ids
    /\ bot_message_ids # {}


(* ---------------------------- C33 -------------------------------------- *)
\* C33: no update is handled twice; the step that handles an update leaves
\* its id in last_update_id, also when the handling raises; every request
\* confirms the updates up to last_update_id; last_update_id never
\* decreases; and a batch never holds an update at or below
\* last_update_id.
C33_EachUpdateOnce ==
    /\ [](\A i \in UpdateIds : handled[i].times <= 1)
    /\ [](\A k \in DOMAIN updates : updates[k] > last_update_id)
    /\ [][/\ last_update_id' >= last_update_id
          /\ \A i \in UpdateIds : handled'[i] # handled[i] => last_update_id' = i
          /\ confirmed' # confirmed => confirmed' = last_update_id]_vars

\* the handling of the first update raised and the second one, fetched by
\* a later request, was handled
C33_Witness ==
    /\ handled[1].times = 1
    /\ handled[1].raised
    /\ handled[2].times = 1
    /\ confirmed = 1
    /\ last_update_id = 2

(* ---------------------------- C34 -------------------------------------- *)
\* the polling thread ends its loop on its own
SelfStop == handler_running /\ ~handler_running' /\ poll_pc' = "exited"
\* process_updates raised in this step
IterationRaised ==
    poll_pc = "loop_head" /\ consecutive_errors' = consecutive_errors + 1
\* process_updates returned in this step
IterationCompleted ==
    /\ handler_running' = handler_running
    /\ arrived' = arrived
    /\ ~IterationRaised
    /\ \/ poll_pc = "for" /\ poll_pc' = "loop_head"
       \/ poll_pc = "loop_head" /\ poll_pc' = "loop_head"

\* C34: the polling loop sets running to false and ends exactly in the step
\* in which process_updates raises for the fifth time in a row; an earlier
\* raise leaves the loop running, and an iteration that returns sets the
\* count of consecutive errors to 0.
C34_StopsAfterFiveInARow ==
    [][/\ SelfStop <=> (IterationRaised /\ consecutive_errors' = max_errors)
       /\ (IterationRaised /\ consecutive_errors' < max_errors)
             => (handler_running' /\ poll_pc' = "loop_head")
       /\ IterationCompleted => consecutive_errors' = 0]_vars

\* the loop has ended itself after it had handled an update
C34_Witness ==
    /\ poll_pc = "exited"
    /\ ~handler_running
    /\ consecutive_errors = max_errors
    /\ last_update_id > 0

====
